---- MODULE Spec2Model ----
(***************************************************************************)
(* Model of the retrieval-augmented answering pipeline of new_chatbot:     *)
(* RedditRAG (src/chatbot_rag.py) and the Fetch Transcript, Analyze        *)
(* Company and chat input interactions of the chat application             *)
(* (src/streamlit_app.py).                                                 *)
(*                                                                         *)
(* Texts are TLA+ strings; a Document is a record                          *)
(* [page_content, metadata], its metadata a function from keys to texts,   *)
(* so that "source" \in DOMAIN metadata is Python's "source" in metadata.  *)
(***************************************************************************)
EXTENDS Integers, Sequences, FiniteSets, TLC

(***************************************************************************)
(* Bounds of the model.                                                    *)
(***************************************************************************)
\* the largest in-memory index the model lets ingestion build
MaxDocs == 4
\* the largest in-memory index of the growth specification
MaxGrowth == 7
\* the longest chat history of one session the model follows
MaxMessages == 2
\* the most tokens a content of the attribution specification is made of
MaxTokens == 4

(***************************************************************************)
(* Program constants.                                                      *)
(***************************************************************************)
\* search_kwargs={"k": 5}
K == 5
\* doc.page_content[:100]
TITLE_MAX == 100
\* datetime.datetime.now().year, the year the application runs in
current_year == 2026
\* if year < 2000
MIN_YEAR == 2000

(***************************************************************************)
(* Text helpers.                                                           *)
(***************************************************************************)
Min(a, b) == IF a < b THEN a ELSE b

RECURSIVE Repeat(_, _)
\* Python: c * n
Repeat(c, n) == IF n <= 0 THEN "" ELSE c \o Repeat(c, n - 1)

\* Python: text[:n]
Prefix(text, n) == SubSeq(text, 1, Min(n, Len(text)))

\* Python: text[i-1:] (i is 1-based)
From(text, i) == SubSeq(text, i, Len(text))

\* whether sub occurs in text at the 1-based position i
OccursAt(text, sub, i) ==
    /\ i >= 1
    /\ i + Len(sub) - 1 <= Len(text)
    /\ SubSeq(text, i, i + Len(sub) - 1) = sub

\* Python: sub in text
Contains(text, sub) == \E i \in 1..Len(text) : OccursAt(text, sub, i)

\* Python: text.find(sub) + 1, and 0 when sub does not occur
Find(text, sub) ==
    IF Contains(text, sub)
    THEN CHOOSE i \in 1..Len(text) :
            /\ OccursAt(text, sub, i)
            /\ \A j \in 1..(i - 1) : ~OccursAt(text, sub, j)
    ELSE 0

RECURSIVE Split(_, _)
\* Python: text.split(sep), the parts between the non-overlapping
\* occurrences of sep taken from the left
Split(text, sep) ==
    LET i == Find(text, sep)
    IN  IF i = 0 THEN <<text>>
        ELSE <<SubSeq(text, 1, i - 1)>> \o Split(From(text, i + Len(sep)), sep)

IsSpace(c) == c \in {" ", "\n", "\t"}

RECURSIVE LStrip(_)
LStrip(text) ==
    IF Len(text) > 0 /\ IsSpace(SubSeq(text, 1, 1)) THEN LStrip(From(text, 2)) ELSE text

RECURSIVE RStrip(_)
RStrip(text) ==
    IF Len(text) > 0 /\ IsSpace(SubSeq(text, Len(text), Len(text)))
    THEN RStrip(SubSeq(text, 1, Len(text) - 1))
    ELSE text

\* Python: text.strip()
Strip(text) == RStrip(LStrip(text))

Digit(d) == SubSeq("0123456789", d + 1, d + 1)

RECURSIVE IntToStr(_)
\* Python: str(n) of a natural number
IntToStr(n) == IF n < 10 THEN Digit(n) ELSE IntToStr(n \div 10) \o Digit(n % 10)

\* Python: d.get(key, default)
Get(d, key, default) == IF key \in DOMAIN d THEN d[key] ELSE default

Range(s) == {s[i] : i \in 1..Len(s)}

IsPrefixOf(s, t) == Len(s) <= Len(t) /\ SubSeq(t, 1, Len(s)) = s

(***************************************************************************)
(* Documents and the vector index.                                         *)
(***************************************************************************)
Document(page_content, metadata) ==
    [page_content |-> page_content, metadata |-> metadata]

\* the placeholder RedditRAG.__init__ seeds a new index with
InitDoc == Document("Initialization document", [source |-> "init"])

\* The embedding of a text: a deterministic function of the text alone (the
\* metadata is not embedded), here one coordinate.
Embed(text) == Len(text)

\* squared L2 distance of two embeddings
Distance(u, v) == (u - v) * (u - v)

\* a bug the search could have: of two entries as near, the later first
BeforeLatestFirst(store, qv, i, j) ==
    LET di == Distance(Embed(store[i].page_content), qv)
        dj == Distance(Embed(store[j].page_content), qv)
    IN  di < dj \/ (di = dj /\ i > j)

\* An exact nearest-neighbour search of a flat index: entry i ranks before
\* entry j when it is nearer, or as near and inserted earlier.
Before(store, qv, i, j) ==
    LET di == Distance(Embed(store[i].page_content), qv)
        dj == Distance(Embed(store[j].page_content), qv)
    IN  di < dj \/ (di = dj /\ i < j)

Rank(store, qv, i) == Cardinality({j \in 1..Len(store) : Before(store, qv, j, i)})

\* vector_store.similarity_search: the min(k, size) nearest documents, nearest first
Search(store, qv, k) ==
    [r \in 1..Min(k, Len(store)) |->
        store[CHOOSE i \in 1..Len(store) : Rank(store, qv, i) = r - 1]]

\* a bug the retriever could have: no limit on the number of results
RetrieveAll(store, question) == Search(store, Embed(question), Len(store))

\* self.retriever: similarity search with k = 5 over self.vector_store
Retrieve(store, question) == Search(store, Embed(question), K)

\* a bug add_documents could have: the new entries put in front
add_documents_front(store, documents) == documents \o store

\* FAISS.add_documents: the new entries are appended
add_documents(store, documents) == store \o documents

\* a bug save_local could have: the newest entry left out of the snapshot
save_local_truncating(store) ==
    [kind |-> "index", docs |-> SubSeq(store, 1, Len(store) - 1)]

\* FAISS.save_local: the snapshot at VECTOR_DB_PATH is overwritten by the index
save_local(store) == [kind |-> "index", docs |-> store]

\* FAISS.load_local succeeds only on a snapshot it can read
Loadable(snapshot) == snapshot.kind = "index"

\* FAISS.load_local: the index the snapshot holds
load_local(snapshot) == snapshot.docs

(***************************************************************************)
(* RedditRAG.query: source attribution (chatbot_rag.py, lines 123-178).    *)
(***************************************************************************)
\* the Yahoo Finance branch: title and url split at "http"
NewsSource(content) ==
    LET parts == Split(content, "http")
        found == Contains(content, "http") /\ Len(parts) > 1
    IN  [title  |-> IF found THEN Strip(parts[1]) ELSE content,
         url    |-> IF found THEN "http" \o Strip(parts[2]) ELSE "",
         type   |-> "news",
         source |-> "Yahoo Finance"]

\* a bug the generic branch could have: a content of exactly 100 characters
\* truncated too
GenericSourceOffByOne(doc) ==
    [title    |-> IF Len(doc.page_content) >= TITLE_MAX
                  THEN Prefix(doc.page_content, TITLE_MAX) \o "..."
                  ELSE doc.page_content,
     content  |-> doc.page_content,
     metadata |-> doc.metadata]

\* the generic branch: title truncated to 100 characters
GenericSource(doc) ==
    [title    |-> IF Len(doc.page_content) > TITLE_MAX
                  THEN Prefix(doc.page_content, TITLE_MAX) \o "..."
                  ELSE doc.page_content,
     content  |-> doc.page_content,
     metadata |-> doc.metadata]

\* The sources one document of the context adds to result["sources"]: the
\* else of the generic branch belongs to `if "source" in doc.metadata`.
SourceRefs(doc) ==
    IF "source" \in DOMAIN doc.metadata
    THEN IF doc.metadata["source"] = "yahoo_finance"
         THEN <<NewsSource(doc.page_content)>>
         ELSE <<>>
    ELSE <<GenericSource(doc)>>

RECURSIVE BuildSources(_)
\* for doc in source_docs: ... result["sources"].append(source)
BuildSources(source_docs) ==
    IF source_docs = <<>> THEN <<>>
    ELSE SourceRefs(Head(source_docs)) \o BuildSources(Tail(source_docs))

\* A response is a dict; its "context" is a list, [list |-> docs], or an
\* object with a documents attribute, [documents |-> docs].
\* The documents query scans: the first location that is present.
SourceDocs(response) ==
    IF "context" \in DOMAIN response /\ "documents" \in DOMAIN response["context"]
    THEN response["context"]["documents"]
    ELSE IF "source_documents" \in DOMAIN response
    THEN response["source_documents"]
    ELSE IF "context" \in DOMAIN response /\ "list" \in DOMAIN response["context"]
    THEN response["context"]["list"]
    ELSE <<>>

\* the answer field query reads from the response
AnswerOf(response) == Get(response, "result", "No answer found")

\* result = {"answer": ..., "sources": [...]}
FormatResponse(response) ==
    [answer |-> AnswerOf(response), sources |-> BuildSources(SourceDocs(response))]

(***************************************************************************)
(* RedditRAG.query: the calling conventions (chatbot_rag.py, lines 95-121).*)
(* The backend's behaviour is an input e: whether each convention raises,  *)
(* whether the chain has a run method, and the text the backend answers.   *)
(***************************************************************************)
\* retrieval_chain.invoke({key: question}) of create_retrieval_chain: the
\* input, the retrieved context and the answer
InvokeResponse(key, store, question, text) ==
    (key :> question) @@
    [context |-> [list |-> Retrieve(store, question)], answer |-> text]

\* {"answer": self.retrieval_chain.run(question)}
RunResponse(text) == [answer |-> text]

\* RetrievalQA with return_source_documents=True
QAResponse(store, question, text) ==
    [query |-> question, result |-> text,
     source_documents |-> Retrieve(store, question)]

\* the third convention: run when the chain has it, else a rebuilt RetrievalQA
ThirdConvention(e) == IF e.has_run THEN "run" ELSE "qa_chain"

\* a bug the nesting could have: the "input" key tried before "question"
AttemptsInputFirst(e) ==
    IF e.first = "ok" THEN <<"invoke_input">>
    ELSE IF e.second = "ok" THEN <<"invoke_input", "invoke_question">>
    ELSE <<"invoke_input", "invoke_question", ThirdConvention(e)>>

\* the conventions tried, in the order tried
Attempts(e) ==
    IF e.first = "ok" THEN <<"invoke_question">>
    ELSE IF e.second = "ok" THEN <<"invoke_question", "invoke_input">>
    ELSE <<"invoke_question", "invoke_input", ThirdConvention(e)>>

\* how each convention tried ended, in the order tried
Outcomes(e) ==
    IF e.first = "ok" THEN <<"ok">>
    ELSE IF e.second = "ok" THEN <<"raise", "ok">>
    ELSE <<"raise", "raise", e.third>>

\* whether the exception of the last convention leaves query: the third
\* call is inside no try block
QueryRaises(e) == e.first = "raise" /\ e.second = "raise" /\ e.third = "raise"

\* the response the successful convention returned
ResponseOf(store, question, e) ==
    IF e.first = "ok" THEN InvokeResponse("question", store, question, e.text)
    ELSE IF e.second = "ok" THEN InvokeResponse("input", store, question, e.text)
    ELSE IF e.has_run THEN RunResponse(e.text)
    ELSE QAResponse(store, question, e.text)

NoCall == [called |-> FALSE]

\* a bug query could have: the index saved at the end of every call
query_writes_saving(store, snapshot) ==
    [vector_store |-> store, disk |-> save_local(store)]

\* The index and the snapshot a call of query leaves behind. No statement of
\* query assigns self.vector_store, adds a document or saves; the rebuilt
\* RetrievalQA chain is a local of the call.
query_writes(store, snapshot) == [vector_store |-> store, disk |-> snapshot]

\* what a call of query did, its arguments included
QueryRecord(store, question, lookback_hours, e) ==
    IF QueryRaises(e)
    THEN [called |-> TRUE, question |-> question, lookback_hours |-> lookback_hours,
          attempts |-> Attempts(e), outcomes |-> Outcomes(e),
          raised |-> TRUE, retrieved |-> Retrieve(store, question)]
    ELSE [called |-> TRUE, question |-> question, lookback_hours |-> lookback_hours,
          attempts |-> Attempts(e), outcomes |-> Outcomes(e),
          raised |-> FALSE, retrieved |-> Retrieve(store, question),
          response |-> ResponseOf(store, question, e),
          result |-> FormatResponse(ResponseOf(store, question, e))]

\* a bug query could have: a window below a day narrows the retrieval to the
\* newest entry
query_windowed(store, question, lookback_hours, e) ==
    QueryRecord(IF lookback_hours < 24 THEN SubSeq(store, Len(store), Len(store))
                ELSE store,
                question, lookback_hours, e)

\* RedditRAG.query(question, lookback_hours): the retriever is used as it
\* is, lookback_hours is read by no statement
query(store, question, lookback_hours, e) ==
    QueryRecord(store, question, lookback_hours, e)

(***************************************************************************)
(* RedditRAG.__init__ and get_reddit_rag (chatbot_rag.py).                 *)
(***************************************************************************)
\* ChatGroq(api_key=GROQ_API_KEY, ...) raises when there is no credential
ChatGroqOk(key) == key # "None"

\* a bug the except branch could have: an index created without a document
CreateEmpty == <<>>

\* the except branch of the load: FAISS.from_documents([placeholder]) ...
CreateIndex == <<InitDoc>>

\* a bug the except branch could have: the created index is not saved
SaveSkipped(snapshot, store) == snapshot

\* ... followed by self.vector_store.save_local(VECTOR_DB_PATH)
SaveCreated(snapshot, store) == save_local(store)

\* RedditRAG(): the index it holds, the snapshot it leaves, and the exception
\* that leaves the constructor. self.llm is set only when ChatGroq succeeds,
\* and create_stuff_documents_chain(self.llm, ...) reads it.
RedditRAG_init(snapshot, key) ==
    LET loaded == Loadable(snapshot)
        store  == IF loaded THEN load_local(snapshot) ELSE CreateIndex
    IN  [loaded  |-> loaded,
         store   |-> store,
         disk    |-> IF loaded THEN snapshot ELSE SaveCreated(snapshot, store),
         has_llm |-> ChatGroqOk(key),
         raised  |-> IF ChatGroqOk(key) THEN "none" ELSE "AttributeError"]

(***************************************************************************)
(* The chat application (streamlit_app.py).                                *)
(***************************************************************************)
\* a bug the removal could have: re.sub with count=1, the first tag alone
RemoveFirstTag(text) ==
    LET i == Find(text, "<")
        j == IF i = 0 THEN 0 ELSE Find(From(text, i + 1), ">")
    IN  IF i = 0 \/ j = 0 THEN text
        ELSE Prefix(text, i - 1) \o From(text, i + j + 1)

RECURSIVE RemoveTags(_)
\* re.sub(r'<[^>]*>', '', text)
RemoveTags(text) ==
    LET i == Find(text, "<")
        j == IF i = 0 THEN 0 ELSE Find(From(text, i + 1), ">")
    IN  IF i = 0 \/ j = 0 THEN text
        ELSE Prefix(text, i - 1) \o RemoveTags(From(text, i + j + 1))

\* text[:1000]
SANITIZE_MAX == 1000

sanitize_input(text) == IF text = "" THEN "" ELSE Prefix(RemoveTags(text), SANITIZE_MAX)

\* sanitize_input called with an argument that is None or a str:
\* `if not text: return ""` answers None as it answers ""
SanitizeArgument(arg) == IF arg.kind = "None" THEN "" ELSE sanitize_input(arg.text)

NameChars ==
    "abcdefghijklmnopqrstuvwxyzABCDEFGHIJKLMNOPQRSTUVWXYZ0123456789 \n\t.,&-"

\* re.match(r'^[a-zA-Z0-9\s\.\,\&\-]+$', company_name) and len >= 2
validate_company_name(company_name) ==
    /\ Len(company_name) >= 2
    /\ \A i \in 1..Len(company_name) :
          Contains(NameChars, SubSeq(company_name, i, i))

ErrorDict(msg) == [kind |-> "dict", error |-> msg]

\* Python: bool(text) of a str
Truthy(text) == text # ""

\* result['ticker'].values[0] of the company lookup
Ticker(company_name) == IF IsPrefixOf("Apple", company_name) THEN "AAPL" ELSE "TSLA"

\* a link that holds the year 2025, the ticker AAPL and the quarter q1 the
\* way the availability test looks for them
MatchingLink ==
    "https://www.fool.com/earnings/call-transcripts/2025/AAPL-q1-2025-earnings-call-transcript/"

\* the link a search that goes through finds first in the other specifications
FoundLink == MatchingLink

\* a bug-free availability test: each of the three texts looked for in the url
NotInUrl(year, ticker, quarter, url) ==
    \/ ~Contains(url, IntToStr(year))
    \/ ~Contains(url, ticker)
    \/ ~Contains(url, "q" \o IntToStr(quarter))

\* `if str(year) or str(ticker) or f"q{quarter}" not in url`: `not in`
\* applies to the last operand alone
NotAvailable(year, ticker, quarter, url) ==
    \/ Truthy(IntToStr(year))
    \/ Truthy(ticker)
    \/ ~Contains(url, "q" \o IntToStr(quarter))

\* the text of the page behind the marker "Full Conference Call Transcript"
PageTranscript == "Prepared remarks."

\* get_earnings_transcript(company_name, year, quarter). net is "error"
\* when the company lookup or the link search fails (an exception no try
\* block of the function covers), and else the first link the search found.
get_earnings_transcript(company_name, year, quarter, net) ==
    IF ~validate_company_name(sanitize_input(company_name))
    THEN ErrorDict("Invalid company name provided")
    ELSE IF year < MIN_YEAR \/ year > current_year
    THEN ErrorDict("Year must be between " \o IntToStr(MIN_YEAR) \o " and "
                   \o IntToStr(current_year))
    ELSE IF quarter < 1 \/ quarter > 4
    THEN ErrorDict("Quarter must be between 1 and 4")
    ELSE IF net = "error"
    THEN [kind |-> "raise", error |-> "list index out of range"]
    ELSE IF NotAvailable(year, Ticker(company_name), quarter, net)
    THEN [kind |-> "str", text |-> "Earnings call not available"]
    ELSE [kind |-> "str",
          text |-> net \o "\n\n" \o "Earnings Retriever Tool:\n\n" \o PageTranscript]

\* the requests get_earnings_transcript makes, in their order: the ticker
\* list, the link search, and the page behind the link
TranscriptRequests(company_name, year, quarter, net) ==
    LET value == get_earnings_transcript(company_name, year, quarter, net)
    IN  IF value.kind = "dict" THEN <<>>
        ELSE IF net = "error" THEN <<"company_tickers">>
        ELSE IF NotAvailable(year, Ticker(company_name), quarter, net)
        THEN <<"company_tickers", "search">>
        ELSE <<"company_tickers", "search", "page">>

\* str(transcript_result)
PyStr(value) ==
    IF value.kind = "str" THEN value.text ELSE "{'error': '" \o value.error \o "'}"

\* a bug the handler could have: the document built without its source tag
TranscriptDocumentUntagged(value, name, year, quarter) ==
    Document(PyStr(value),
             [company |-> name, year |-> IntToStr(year),
              quarter |-> IntToStr(quarter)])

\* Document(page_content=str(transcript_result), metadata={...})
TranscriptDocument(value, name, year, quarter) ==
    Document(PyStr(value),
             [company |-> name, year |-> IntToStr(year),
              quarter |-> IntToStr(quarter), source |-> "motley_fool"])

UserMessage(name, year, quarter) ==
    [role |-> "user",
     content |-> "Show me the earnings call transcript for " \o name
                 \o " (Year: " \o IntToStr(year) \o ", Quarter: "
                 \o IntToStr(quarter) \o ")"]

AnalysisQuestion(name, year, quarter) ==
    "Get analysis for " \o name \o " with year " \o IntToStr(year)
    \o " and quarter " \o IntToStr(quarter)

\* a bug the except branch could have: the error text appended as if the
\* user had written it
ErrorMessageAsUser(text) ==
    [role |-> "user",
     content |-> "An error occurred while fetching the transcript: " \o text]

\* the except branch: error_msg appended to the chat history
ErrorMessage(text) ==
    [role |-> "assistant",
     content |-> "An error occurred while fetching the transcript: " \o text]

\* a bug the handler could have: only a transcript text is ingested
IngestTextOnly(store, value, name, year, quarter) ==
    IF value.kind # "str" THEN store
    ELSE add_documents(store, <<TranscriptDocument(value, name, year, quarter)>>)

\* the index after the try block: the document is added as soon as the
\* fetch has returned, whatever it returned
IngestTranscript(store, value, name, year, quarter) ==
    IF value.kind = "raise" THEN store
    ELSE add_documents(store, <<TranscriptDocument(value, name, year, quarter)>>)

\* the assistant message the interaction appends
AssistantMessage(value, q) ==
    IF value.kind = "raise" THEN ErrorMessage(value.error)
    ELSE IF q.raised THEN ErrorMessage("backend call failed")
    ELSE IF value.kind = "dict"
    THEN ErrorMessage("unsupported operand type(s) for +: 'dict' and 'str'")
    ELSE [role |-> "assistant", content |-> value.text \o "\n" \o q.result.answer]

(***************************************************************************)
(* The chat application: the Analyze Company button and the questions on   *)
(* the selected company (streamlit_app.py).                                *)
(***************************************************************************)

UpperLetters == "ABCDEFGHIJKLMNOPQRSTUVWXYZ"

LowerLetters == "abcdefghijklmnopqrstuvwxyz"

LowerChar(c) ==
    LET i == Find(UpperLetters, c)
    IN  IF i = 0 THEN c ELSE SubSeq(LowerLetters, i, i)

RECURSIVE Lower(_)
\* Python: text.lower()
Lower(text) ==
    IF text = "" THEN "" ELSE LowerChar(SubSeq(text, 1, 1)) \o Lower(From(text, 2))

\* search_company(company_name); outcome is what the EDGAR search answers:
\* "error" (no matching company, or the request fails), "no_cik" (an entry
\* no CIK can be read from), "cik"
search_company(company_name, outcome) ==
    IF ~validate_company_name(sanitize_input(company_name))
    THEN ErrorDict("Invalid company name provided")
    ELSE IF outcome = "error" THEN ErrorDict("No matching companies found")
    ELSE IF outcome = "no_cik"
    THEN [kind |-> "dict", name |-> sanitize_input(company_name)]
    ELSE [kind |-> "dict", name |-> sanitize_input(company_name), cik |-> "0000320193"]

\* filing_type=None
AnyForm == "None"

\* the filing at the 1-based position i of the recent filings: recent lists
\* the forms, newest first, and the position stands for the accession number
Filing(recent, i) == [form |-> recent[i], accessionNumber |-> i]

RECURSIVE FilingsLoop(_, _, _, _, _)
\* the loop `for i in range(min(limit, len(recent.get('accessionNumber', []))))`
\* from its 1-based position i on, filings being the list built so far
FilingsLoop(recent, filing_type, limit, i, filings) ==
    IF i > Min(limit, Len(recent)) THEN filings
    ELSE IF filing_type = AnyForm \/ recent[i] = filing_type
    THEN LET appended == Append(filings, Filing(recent, i))
         IN  IF Len(appended) >= limit THEN appended
             ELSE FilingsLoop(recent, filing_type, limit, i + 1, appended)
    ELSE FilingsLoop(recent, filing_type, limit, i + 1, filings)

\* get_company_filings(cik, filing_type, limit); response is what the
\* submissions API answers for the cik: a failure, data without recent
\* filings, or the recent filings
get_company_filings(response, filing_type, limit) ==
    IF response.kind = "error"
    THEN ErrorDict("Failed to get company filings: request failed")
    ELSE IF response.kind = "no_recent" THEN [kind |-> "list", filings |-> <<>>]
    ELSE [kind |-> "list",
          filings |-> FilingsLoop(response.recent, filing_type, limit, 1, <<>>)]

FinancialTerms ==
    {"financial", "revenue", "income", "profit", "loss", "earnings", "assets",
     "liabilities"}

FilingsTerms == {"filing", "report", "10-k", "10-q", "8-k", "sec"}

RiskTerms == {"risk", "risks", "risk factors"}

BusinessTerms == {"business", "company", "description", "what does", "what is"}

\* any(term in query_lower for term in terms)
AnyTerm(terms, query_lower) == \E term \in terms : Contains(query_lower, term)

\* a bug the chain of tests could have: the risk group tested before the
\* filings group
ChooseHandlerRiskFirst(query_lower) ==
    IF AnyTerm(FinancialTerms, query_lower) THEN "financial"
    ELSE IF AnyTerm(RiskTerms, query_lower) THEN "risk"
    ELSE IF AnyTerm(FilingsTerms, query_lower) THEN "filings"
    ELSE IF AnyTerm(BusinessTerms, query_lower) THEN "business"
    ELSE "default"

\* the if/elif chain over the keyword groups
ChooseHandler(query_lower) ==
    IF AnyTerm(FinancialTerms, query_lower) THEN "financial"
    ELSE IF AnyTerm(FilingsTerms, query_lower) THEN "filings"
    ELSE IF AnyTerm(RiskTerms, query_lower) THEN "risk"
    ELSE IF AnyTerm(BusinessTerms, query_lower) THEN "business"
    ELSE "default"

SelectCompanyMessage ==
    "Please select a company first by entering a company name in the sidebar and clicking 'Analyze Company'."

DefaultMessage(company_context) ==
    "I can provide information about " \o company_context
    \o " based on SEC filings. Try asking about financial data, recent filings, risk factors, or business description."

RECURSIVE FilingLines(_)
\* the lines the filings handler writes, one filing after the other
FilingLines(filings) ==
    IF filings = <<>> THEN ""
    ELSE "- " \o filings[1].form \o " filed, Accession Number: "
         \o IntToStr(filings[1].accessionNumber) \o "\n\n"
         \o FilingLines(SubSeq(filings, 2, Len(filings)))

\* the section extract_section cuts out of the content of a 10-K
SectionText == "Item text."

\* the risk and the business handler: the most recent 10-K, then its section
SectionResponse(heading, what, company_context, response) ==
    LET filings == get_company_filings(response, "10-K", 1)
    IN  IF "error" \in DOMAIN filings
        THEN "Error retrieving filings: " \o filings.error
        ELSE IF filings.filings = <<>>
        THEN "No 10-K filings found to extract " \o what \o "."
        ELSE heading \o " for " \o company_context
             \o " from the most recent 10-K filing (accession "
             \o IntToStr(filings.filings[1].accessionNumber) \o "):\n\n" \o SectionText

\* what the chosen handler looks up, and what it answers
HandlerLookups(handler) ==
    IF handler = "financial" THEN <<"extract_financial_data">>
    ELSE IF handler = "filings" THEN <<"get_company_filings">>
    ELSE IF handler \in {"risk", "business"}
    THEN <<"get_company_filings", "get_filing_content">>
    ELSE <<>>

HandlerResponse(handler, company_context, response) ==
    IF handler = "financial"
    THEN "Financial data for " \o company_context \o " from SEC filings:\n\n"
    ELSE IF handler = "filings"
    THEN LET filings == get_company_filings(response, AnyForm, 10)
         IN  IF "error" \in DOMAIN filings
             THEN "Error retrieving filings: " \o filings.error
             ELSE "Recent SEC filings for " \o company_context \o ":\n\n"
                  \o FilingLines(filings.filings)
    ELSE IF handler = "risk"
    THEN SectionResponse("Risk Factors", "risk factors", company_context, response)
    ELSE IF handler = "business"
    THEN SectionResponse("Business Description", "business description",
                         company_context, response)
    ELSE DefaultMessage(company_context)

\* process_user_query(query, company_context), the query named user_query
\* here; env is what the lookups
\* answer: env.search the EDGAR search, env.response the submissions API.
\* The record holds the returned response, the handler chosen and the
\* lookups made on the way.
process_user_query(user_query, company_context, env) ==
    LET sanitized_query == sanitize_input(user_query)
        company_search  == search_company(company_context, env.search)
        query_lower     == Lower(sanitized_query)
        handler         == ChooseHandler(query_lower)
    IN  IF company_context \in {"None", ""}
        THEN [sanitized_query |-> sanitized_query, handler |-> "none",
              lookups |-> <<>>, response |-> SelectCompanyMessage]
        ELSE IF "error" \in DOMAIN company_search
        THEN [sanitized_query |-> sanitized_query, handler |-> "none",
              lookups |-> <<"search_company">>,
              response |-> "Error: " \o company_search.error]
        ELSE IF "cik" \notin DOMAIN company_search
        THEN [sanitized_query |-> sanitized_query, handler |-> "none",
              lookups |-> <<"search_company">>,
              response |-> "Error: Company CIK not found"]
        ELSE [sanitized_query |-> sanitized_query, handler |-> handler,
              lookups |-> <<"search_company">> \o HandlerLookups(handler),
              response |-> HandlerResponse(handler, company_context, env.response)]

\* st.session_state.company_data = {}
EmptyDict == <<>>

\* the CIK the EDGAR search answers
FoundCik == "0000320193"

\* the company_data an analysis stores; details is whether the lookups of
\* the company's information, sentiment and SWOT went through
CompanyData(name, cik, details) ==
    [name |-> name,
     cik |-> cik,
     info |-> IF details = "ok" THEN "info" ELSE "Information not available",
     sentiment |-> IF details = "ok" THEN "sentiment"
                   ELSE "Sentiment analysis not available",
     swot |-> IF details = "ok" THEN "swot" ELSE "SWOT analysis not available",
     financials |-> IF details = "ok" THEN "financials" ELSE "{}"]

\* `if st.session_state.company_data and "name" in st.session_state.company_data`:
\* the name the buttons of the sidebar work on
SelectedNames(data) == IF "name" \in DOMAIN data THEN {data["name"]} ELSE {}

AnalyzedMessage(name) ==
    [role |-> "assistant",
     content |-> "I've analyzed " \o name
                 \o " using SEC EDGAR data. You can ask me specific questions about this company now."]

\* a bug the Analyze Company handler could have: the selection cleared when
\* the analysis fails
AnalyzeCompanyClearing(data, history, company_name, outcome, details) ==
    LET sanitized_company == sanitize_input(company_name)
        company_search    == search_company(sanitized_company, outcome)
    IN  IF company_name = ""
        THEN [company_data |-> data, messages |-> history, error |-> "None"]
        ELSE IF ~validate_company_name(sanitized_company)
        THEN [company_data |-> EmptyDict, messages |-> history,
              error |-> "Please enter a valid company name or ticker"]
        ELSE IF "error" \in DOMAIN company_search
        THEN [company_data |-> EmptyDict, messages |-> history,
              error |-> "Error: " \o company_search.error]
        ELSE IF "cik" \notin DOMAIN company_search
        THEN [company_data |-> EmptyDict, messages |-> history,
              error |-> "Company CIK not found"]
        ELSE [company_data |-> CompanyData(sanitized_company, company_search.cik, details),
              messages |-> Append(history, AnalyzedMessage(sanitized_company)),
              error |-> "None"]

\* the Analyze Company button with company_name in the text input: the
\* company_data and the messages of the session after it, and what
\* st.error shows. The body runs `if st.button(...) and company_name`.
AnalyzeCompanyHandler(data, history, company_name, outcome, details) ==
    LET sanitized_company == sanitize_input(company_name)
        company_search    == search_company(sanitized_company, outcome)
    IN  IF company_name = ""
        THEN [company_data |-> data, messages |-> history, error |-> "None"]
        ELSE IF ~validate_company_name(sanitized_company)
        THEN [company_data |-> data, messages |-> history,
              error |-> "Please enter a valid company name or ticker"]
        ELSE IF "error" \in DOMAIN company_search
        THEN [company_data |-> data, messages |-> history,
              error |-> "Error: " \o company_search.error]
        ELSE IF "cik" \notin DOMAIN company_search
        THEN [company_data |-> data, messages |-> history,
              error |-> "Company CIK not found"]
        ELSE [company_data |-> CompanyData(sanitized_company, company_search.cik, details),
              messages |-> Append(history, AnalyzedMessage(sanitized_company)),
              error |-> "None"]

(***************************************************************************)
(* State.                                                                  *)
(***************************************************************************)
VARIABLES
    disk,          \* the snapshot at VECTOR_DB_PATH
    GROQ_API_KEY,  \* the credential of the environment, "None" when unset
    reddit_rag,    \* the singleton _reddit_rag: "None" or "instance"
    vector_store,  \* the documents of the instance's index, in insertion order
    boot,          \* what the last construction of RedditRAG did
    creates,       \* how often a new index was created
    ingested,      \* every document ever handed to add_documents
    messages,      \* st.session_state.messages of the current session
    last,          \* what the interaction's call of RedditRAG.query did
    threads,       \* where each concurrently running session's script is
    objects,       \* the RedditRAG objects the concurrent sessions built
    company_data,  \* st.session_state.company_data of the current session
    call           \* the application function the last interaction called:
                   \* its arguments and what it returned

vars == <<disk, GROQ_API_KEY, reddit_rag, vector_store, boot, creates,
          ingested, messages, last, threads, objects, company_data, call>>

\* no interaction of the session has called an application function
NoAppCall == [fn |-> "none"]

\* the sessions whose scripts run at the same time, each in its own thread
\* of the one server process
Threads == {"s1", "s2", "s3"}

IdleThread == [pc |-> "idle"]

\* no object built by a session, _reddit_rag refers to none of them
NoObjects == [constructed |-> 0, current |-> 0]

\* a news document and an untagged note, as another producer stores them
NewsDoc == Document("Headline text http://example.com/a", [source |-> "yahoo_finance"])

NoteDoc == Document(Repeat("n", TITLE_MAX + 1), [topic |-> "notes"])

\* the snapshots the storage may hold when the application first starts
InitialSnapshots ==
    {[kind |-> "absent"], [kind |-> "corrupt"],
     save_local(<<InitDoc, NewsDoc, NoteDoc>>)}

Credentials == {"None", "gsk-key"}

\* the company the session has selected
Companies == {"Apple Inc."}

\* the (year, quarter) pairs the select boxes offer: earnings dates, which
\* include the coming ones
Periods == {<<2025, 1>>, <<2025, 2>>, <<2027, 1>>}

\* The backend's behaviours during one query. Behaviours that differ only
\* in a call query never makes are one behaviour.
Backends ==
    {e \in [first : {"ok", "raise"}, second : {"ok", "raise"}, has_run : BOOLEAN,
            third : {"ok", "raise"}, text : {"The market rose."}] :
        /\ e.first = "ok" => e.second = "ok"
        /\ e.second = "ok" => (~e.has_run /\ e.third = "ok")}

\* the periods and the backend of the growth specification
GrowthPeriods == {<<2025, 1>>, <<2025, 2>>}

GrowthBackends == {e \in Backends : e.first = "raise" /\ e.second = "ok"}

NotBooted == [attempted |-> FALSE]

\* before the application starts: the storage and the credential are the
\* environment's
InitSession(snapshots, credentials, selections) ==
    /\ disk \in snapshots
    /\ GROQ_API_KEY \in credentials
    /\ reddit_rag = "None"
    /\ vector_store = <<>>
    /\ boot = NotBooted
    /\ creates = 0
    /\ ingested = {}
    /\ messages = <<>>
    /\ last = NoCall
    /\ threads = [t \in Threads |-> IdleThread]
    /\ objects = NoObjects
    /\ company_data \in selections
    /\ call = NoAppCall

\* the session has analysed its company
InitWith(snapshots, credentials) ==
    InitSession(snapshots, credentials,
                {CompanyData(name, FoundCik, "ok") : name \in Companies})

Init == InitWith(InitialSnapshots, Credentials)

(***************************************************************************)
(* Actions.                                                                *)
(***************************************************************************)
\* get_reddit_rag() while _reddit_rag is None: RedditRAG() is constructed,
\* and assigned only when the constructor returns
GetRedditRag ==
    /\ reddit_rag = "None"
    /\ LET r == RedditRAG_init(disk, GROQ_API_KEY)
       IN  /\ disk' = r.disk
           /\ creates' = IF r.loaded THEN creates ELSE creates + 1
           /\ boot' = [attempted |-> TRUE, raised |-> r.raised]
           /\ reddit_rag' = IF r.raised = "none" THEN "instance" ELSE "None"
           /\ vector_store' = IF r.raised = "none" THEN r.store ELSE <<>>
    /\ UNCHANGED <<GROQ_API_KEY, ingested, messages, last, threads, objects,
                   company_data, call>>

\* the process ends: the singleton, its index and the session are gone, the
\* storage stays
Restart ==
    /\ boot.attempted
    /\ reddit_rag' = "None"
    /\ vector_store' = <<>>
    /\ boot' = NotBooted
    /\ messages' = <<>>
    /\ last' = NoCall
    /\ UNCHANGED <<disk, GROQ_API_KEY, creates, ingested, threads, objects,
                   company_data, call>>

\* a new browser session: st.session_state.messages = []. The history is
\* followed from the point the session has analysed its company (the
\* application specification follows the analysis itself).
NewSession ==
    /\ reddit_rag = "instance"
    /\ messages # <<>>
    /\ messages' = <<>>
    /\ UNCHANGED <<disk, GROQ_API_KEY, reddit_rag, vector_store, boot, creates,
                   ingested, last, threads, objects,
                   company_data, call>>

\* The Fetch Transcript button, the inputs drawn from the given sets: the
\* fetch, the ingestion, the query and the reply. An exception of the try
\* block becomes the error message; st.rerun() after the reply changes no
\* state of the model.
FetchTranscriptWith(periods, nets, backends, max_docs) ==
    /\ reddit_rag = "instance"
    /\ Len(messages) + 2 <= MaxMessages
    /\ Len(vector_store) < max_docs
    /\ \E name \in SelectedNames(company_data), period \in periods, net \in nets :
          LET year    == period[1]
              quarter == period[2]
              value   == get_earnings_transcript(name, year, quarter, net)
              store   == IngestTranscript(vector_store, value, name, year, quarter)
          IN  /\ call' = [fn |-> "get_earnings_transcript", company_name |-> name,
                          year |-> year, quarter |-> quarter, net |-> net,
                          requests |-> TranscriptRequests(name, year, quarter, net),
                          value |-> value]
              /\ ingested' = ingested \cup
                     Range(SubSeq(store, Len(vector_store) + 1, Len(store)))
              /\ IF value.kind = "raise"
                 THEN /\ last' = NoCall
                      /\ vector_store' = store
                      /\ disk' = disk
                 ELSE /\ \E e \in backends :
                            last' = query(store, AnalysisQuestion(name, year, quarter), 24, e)
                      /\ vector_store' = query_writes(store, disk).vector_store
                      /\ disk' = query_writes(store, disk).disk
              /\ messages' = messages \o <<UserMessage(name, year, quarter),
                                            AssistantMessage(value, last')>>
    /\ UNCHANGED <<GROQ_API_KEY, reddit_rag, boot, creates, threads, objects,
                   company_data>>

FetchTranscript == FetchTranscriptWith(Periods, {FoundLink, "error"}, Backends, MaxDocs)

Next == GetRedditRag \/ Restart \/ NewSession \/ FetchTranscript

Spec == Init /\ [][Next]_vars

(***************************************************************************)
(* The growth specification: one session after another ingests the         *)
(* transcripts of one company, so that the index outgrows k.               *)
(***************************************************************************)
InitGrowth == InitWith({[kind |-> "absent"]}, Credentials \ {"None"})

FetchGrowth == FetchTranscriptWith(GrowthPeriods, {FoundLink}, GrowthBackends, MaxGrowth)

NextGrowth == GetRedditRag \/ NewSession \/ FetchGrowth

SpecGrowth == InitGrowth /\ [][NextGrowth]_vars

(***************************************************************************)
(* The attribution specification: the storage holds one document of any    *)
(* bounded content and tagging, the application loads it, and one Fetch    *)
(* Transcript interaction queries the index.                               *)
(***************************************************************************)
Tokens == {"http", " ", "News", "://a"}

RECURSIVE TokenStrings(_)
\* the concatenations of at most n tokens
TokenStrings(n) ==
    IF n = 0 THEN {""}
    ELSE LET S == TokenStrings(n - 1) IN S \cup {s \o t : s \in S, t \in Tokens}

\* contents around the title limit, one with a url behind it
LongContents ==
    {Repeat("n", n) : n \in (TITLE_MAX - 1)..(TITLE_MAX + 2)}
    \cup {Repeat("n", TITLE_MAX) \o " http://a"}

SourceContents == TokenStrings(MaxTokens) \cup LongContents

SourceMetadata == {[source |-> "yahoo_finance"], [source |-> "init"], [topic |-> "notes"]}

SourceSnapshots ==
    {save_local(<<Document(content, metadata)>>) :
        content \in SourceContents, metadata \in SourceMetadata}

InitSources == InitWith(SourceSnapshots, Credentials \ {"None"})

FetchSources == FetchTranscriptWith({<<2025, 1>>}, {FoundLink}, Backends, MaxDocs)

NextSources == GetRedditRag \/ FetchSources

SpecSources == InitSources /\ [][NextSources]_vars

(***************************************************************************)
(* The query specification: RedditRAG.query called with questions of its   *)
(* caller's choice, between ingestions into an index that outgrows k,      *)
(* restarts included.                                                      *)
(***************************************************************************)
\* the largest in-memory index of the query specification
MaxIndex == 6

QuerySnapshots == {[kind |-> "absent"], save_local(<<InitDoc, NewsDoc, NoteDoc>>)}

InitQuery == InitWith(QuerySnapshots, Credentials \ {"None"})

\* two periods whose transcript documents differ in their metadata alone
QueryPeriods == {<<2025, 1>>, <<2025, 2>>}

Questions ==
    {"What are the risks?", AnalysisQuestion("Apple Inc.", 2025, 1),
     Repeat("q", TITLE_MAX)}

\* rag.query(question, lookback_hours) called on the shared instance, the
\* window drawn from the given set
QueryWith(lookbacks) ==
    /\ reddit_rag = "instance"
    /\ \E question \in Questions, lookback_hours \in lookbacks, e \in Backends :
          last' = query(vector_store, question, lookback_hours, e)
    /\ vector_store' = query_writes(vector_store, disk).vector_store
    /\ disk' = query_writes(vector_store, disk).disk
    /\ UNCHANGED <<GROQ_API_KEY, reddit_rag, boot, creates, ingested, messages,
                   threads, objects,
                   company_data, call>>

\* rag.query(question): lookback_hours takes its default
Query == QueryWith({24})

FetchQuery == FetchTranscriptWith(QueryPeriods, {FoundLink}, GrowthBackends, MaxIndex)

NextQuery == GetRedditRag \/ Restart \/ NewSession \/ FetchQuery \/ Query

SpecQuery == InitQuery /\ [][NextQuery]_vars

(***************************************************************************)
(* The lookback specification: RedditRAG.query called with windows of the  *)
(* caller's choice.                                                        *)
(***************************************************************************)
\* the lookback windows a caller passes: an hour, the default day, a week
LookbackHours == {1, 24, 168}

QueryLookback == QueryWith(LookbackHours)

FetchLookback == FetchTranscriptWith(QueryPeriods, {FoundLink}, GrowthBackends, MaxDocs)

NextLookback == GetRedditRag \/ NewSession \/ FetchLookback \/ QueryLookback

SpecLookback == InitQuery /\ [][NextLookback]_vars

(***************************************************************************)
(* The singleton specification: the scripts of several sessions call       *)
(* get_reddit_rag at the same time. The test of _reddit_rag, the           *)
(* construction and the assignment are separate steps of a thread, as no   *)
(* lock surrounds them.                                                    *)
(***************************************************************************)
\* `if _reddit_rag is None:` read by the script of session t
CallGetRedditRag(t) ==
    /\ threads[t].pc = "idle"
    /\ threads' = [threads EXCEPT ![t] =
                      IF reddit_rag = "None"
                      THEN [pc |-> "constructing"]
                      ELSE [pc |-> "returned", rag |-> objects.current]]
    /\ UNCHANGED <<disk, GROQ_API_KEY, reddit_rag, vector_store, boot, creates,
                   ingested, messages, last, objects,
                   company_data, call>>

\* RedditRAG() run by session t: when the constructor returns, a new
\* object, not yet assigned
Construct(t) ==
    /\ threads[t].pc = "constructing"
    /\ LET r  == RedditRAG_init(disk, GROQ_API_KEY)
           id == objects.constructed + 1
       IN  /\ disk' = r.disk
           /\ creates' = IF r.loaded THEN creates ELSE creates + 1
           /\ boot' = [attempted |-> TRUE, raised |-> r.raised]
           /\ objects' = IF r.raised = "none"
                         THEN [objects EXCEPT !.constructed = id]
                         ELSE objects
           /\ threads' = [threads EXCEPT ![t] =
                             IF r.raised = "none"
                             THEN [pc |-> "assigning", rag |-> id, store |-> r.store]
                             ELSE [pc |-> "raised"]]
    /\ UNCHANGED <<GROQ_API_KEY, reddit_rag, vector_store, ingested, messages, last,
                   company_data, call>>

\* `_reddit_rag = ...` and `return _reddit_rag` of session t
Assign(t) ==
    /\ threads[t].pc = "assigning"
    /\ reddit_rag' = "instance"
    /\ vector_store' = threads[t].store
    /\ objects' = [objects EXCEPT !.current = threads[t].rag]
    /\ threads' = [threads EXCEPT ![t] = [pc |-> "returned", rag |-> threads[t].rag]]
    /\ UNCHANGED <<disk, GROQ_API_KEY, boot, creates, ingested, messages, last,
                   company_data, call>>

NextSingleton ==
    \E t \in Threads : CallGetRedditRag(t) \/ Construct(t) \/ Assign(t)

SpecSingleton == Init /\ [][NextSingleton]_vars

(***************************************************************************)
(* The ingestion specification: the Fetch Transcript interactions of       *)
(* several sessions run at the same time on the shared instance. A call    *)
(* of add_documents is not one step of a thread: it embeds the document    *)
(* and then writes the entry behind the entries it found.                  *)
(***************************************************************************)
InitIngest == InitWith({[kind |-> "absent"]}, Credentials \ {"None"})

\* The index a call of add_documents leaves that found n entries when it
\* began. When another call added in between, the two calls raced on the
\* index: the entry is appended, or it takes the place the call had picked
\* and the other call's entry is lost.
RacingAdd(store, n, doc) ==
    IF Len(store) = n THEN {add_documents(store, <<doc>>)}
    ELSE {add_documents(store, <<doc>>), [store EXCEPT ![n + 1] = doc]}

\* session t presses Fetch Transcript: the user message, the fetch, the
\* document, and the start of add_documents
BeginFetch(t) ==
    /\ reddit_rag = "instance"
    /\ threads[t].pc = "idle"
    /\ \E name \in SelectedNames(company_data), period \in GrowthPeriods :
          LET year    == period[1]
              quarter == period[2]
              value   == get_earnings_transcript(name, year, quarter, FoundLink)
          IN  threads' = [threads EXCEPT ![t] =
                  [pc |-> "adding",
                   name |-> name, year |-> year, quarter |-> quarter,
                   value |-> value,
                   document |-> TranscriptDocument(value, name, year, quarter),
                   n |-> Len(vector_store),
                   messages |-> <<UserMessage(name, year, quarter)>>]]
    /\ UNCHANGED <<disk, GROQ_API_KEY, reddit_rag, vector_store, boot, creates,
                   ingested, messages, last, objects,
                   company_data, call>>

\* add_documents of session t writes its entry and returns
EndAdd(t) ==
    /\ threads[t].pc = "adding"
    /\ vector_store' \in RacingAdd(vector_store, threads[t].n, threads[t].document)
    /\ ingested' = ingested \cup {threads[t].document}
    /\ threads' = [threads EXCEPT ![t].pc = "added"]
    /\ UNCHANGED <<disk, GROQ_API_KEY, reddit_rag, boot, creates, messages, last,
                   objects,
                   company_data, call>>

\* rag.query(...) of session t and the reply appended to its history
QueryAndReply(t) ==
    /\ threads[t].pc = "added"
    /\ \E e \in GrowthBackends :
          last' = query(vector_store,
                        AnalysisQuestion(threads[t].name, threads[t].year,
                                         threads[t].quarter), 24, e)
    /\ vector_store' = query_writes(vector_store, disk).vector_store
    /\ disk' = query_writes(vector_store, disk).disk
    /\ threads' = [threads EXCEPT
                      ![t].pc = "replied",
                      ![t].messages = threads[t].messages
                          \o <<AssistantMessage(threads[t].value, last')>>]
    /\ UNCHANGED <<GROQ_API_KEY, reddit_rag, boot, creates, ingested, messages,
                   objects,
                   company_data, call>>

NextIngest ==
    \/ GetRedditRag
    \/ \E t \in Threads : BeginFetch(t) \/ EndAdd(t) \/ QueryAndReply(t)

SpecIngest == InitIngest /\ [][NextIngest]_vars


(***************************************************************************)
(* The filings specification: get_company_filings called on the recent     *)
(* filings of a company, any bounded listing of forms, newest first.       *)
(***************************************************************************)

MaxFilings == 3

FormTypes == {"10-K", "10-Q", "8-K"}

RECURSIVE Listings(_)
\* the listings of at most n forms
Listings(n) ==
    IF n = 0 THEN {<<>>}
    ELSE LET S == Listings(n - 1) IN S \cup {Append(recent, form) : recent \in S, form \in FormTypes}

\* what the submissions API answers
SubmissionResponses ==
    {[kind |-> "error"], [kind |-> "no_recent"]}
    \cup {[kind |-> "ok", recent |-> recent] : recent \in Listings(MaxFilings)}

\* the limits the callers pass: 1 for the most recent 10-K, 5 and 10 for the
\* overviews, and one between
Limits == {1, 2, 5, 10}

InitFilings == InitSession({[kind |-> "absent"]}, Credentials \ {"None"}, {EmptyDict})

\* get_company_filings(cik, filing_type, limit) called and returned, the
\* one call the specification follows
GetCompanyFilings ==
    /\ call = NoAppCall
    /\ \E response \in SubmissionResponses, filing_type \in FormTypes \cup {AnyForm},
          limit \in Limits :
          call' = [fn |-> "get_company_filings", response |-> response,
                   filing_type |-> filing_type, limit |-> limit,
                   value |-> get_company_filings(response, filing_type, limit)]
    /\ UNCHANGED <<disk, GROQ_API_KEY, reddit_rag, vector_store, boot, creates,
                   ingested, messages, last, threads, objects, company_data>>

NextFilings == GetCompanyFilings

SpecFilings == InitFilings /\ [][NextFilings]_vars


(***************************************************************************)
(* The sanitizing specification: sanitize_input called on any bounded text *)
(* of tag characters, on texts around the length limit, and on None, and   *)
(* called again on what it returned.                                       *)
(***************************************************************************)

MaxChars == 4

TagChars == {"<", ">", "b"}

RECURSIVE TagTexts(_)
\* the texts of at most n tag characters
TagTexts(n) ==
    IF n = 0 THEN {""}
    ELSE LET S == TagTexts(n - 1) IN S \cup {s \o c : s \in S, c \in TagChars}

\* Python: c * 10
Ten(c) == c \o c \o c \o c \o c \o c \o c \o c \o c \o c

\* a text of SANITIZE_MAX characters
FullText == Ten(Ten(Ten("a")))

\* texts around the limit: longer than it, longer with tags around and
\* across the limit, and one with an unclosed tag at the limit
LimitTexts ==
    {FullText, FullText \o "a", "<b>" \o FullText \o "aaaaa</b>",
     Prefix(FullText, SANITIZE_MAX - 1) \o "<b>a", FullText \o "<b>",
     Prefix(FullText, SANITIZE_MAX - 1) \o "<aa", "<" \o FullText \o ">a",
     Prefix(FullText, SANITIZE_MAX - 2) \o "<a" \o "<b>" \o ">"}

SanitizeArguments ==
    {[kind |-> "None"]}
    \cup {[kind |-> "str", text |-> text] : text \in TagTexts(MaxChars) \cup LimitTexts}

InitSanitize == InitSession({[kind |-> "absent"]}, Credentials \ {"None"}, {EmptyDict})

\* sanitize_input(arg) called and returned, the first call the
\* specification follows
SanitizeInput ==
    /\ call = NoAppCall
    /\ \E arg \in SanitizeArguments :
          call' = [fn |-> "sanitize_input", first |-> arg, arg |-> arg,
                   again |-> FALSE, value |-> SanitizeArgument(arg)]
    /\ UNCHANGED <<disk, GROQ_API_KEY, reddit_rag, vector_store, boot, creates,
                   ingested, messages, last, threads, objects, company_data>>

\* sanitize_input called on what it returned, as search_company does with
\* the name the Analyze Company handler sanitized
SanitizeAgain ==
    /\ call.fn = "sanitize_input"
    /\ ~call.again
    /\ call' = [fn |-> "sanitize_input", first |-> call.first,
                arg |-> [kind |-> "str", text |-> call.value], again |-> TRUE,
                value |-> SanitizeArgument([kind |-> "str", text |-> call.value])]
    /\ UNCHANGED <<disk, GROQ_API_KEY, reddit_rag, vector_store, boot, creates,
                   ingested, messages, last, threads, objects, company_data>>

NextSanitize == SanitizeInput \/ SanitizeAgain

SpecSanitize == InitSanitize /\ [][NextSanitize]_vars


(***************************************************************************)
(* The application specification: one session after another analyses       *)
(* companies with the Analyze Company button and asks questions in the     *)
(* chat input.                                                             *)
(***************************************************************************)

MaxHistory == 3

InitApp == InitSession({[kind |-> "absent"]}, Credentials \ {"None"}, {EmptyDict})

\* what the text input holds when the button is clicked: nothing, two
\* names, one of them in tags, and two names the validation rejects
CompanyInputs == {"", "Apple Inc.", "<b>Tesla</b>", "A", "Apple; Inc"}

SearchOutcomes == {"error", "no_cik", "cik"}

\* the Analyze Company button
AnalyzeCompany ==
    /\ \E company_name \in CompanyInputs, outcome \in SearchOutcomes :
          LET r == AnalyzeCompanyHandler(company_data, messages, company_name,
                                         outcome, "ok")
          IN  /\ Len(r.messages) <= MaxHistory
              /\ company_data' = r.company_data
              /\ messages' = r.messages
              /\ call' = [fn |-> "analyze_company", company_name |-> company_name,
                          outcome |-> outcome, error |-> r.error]
    /\ UNCHANGED <<disk, GROQ_API_KEY, reddit_rag, vector_store, boot, creates,
                   ingested, last, threads, objects>>

\* the questions typed into the chat input
Prompts ==
    {"What are the risks in the latest report?", "What are the risks?",
     "Revenue and risk", "What does the company do?", "<b>Risk</b> factors",
     "Is it secure?", "Hello"}

\* what the submissions API answers during a question
ChatResponses ==
    {[kind |-> "error"], [kind |-> "ok", recent |-> <<"8-K", "10-K">>]}

\* the chat input: the prompt appended, process_user_query called with the
\* name of the selected company, its response appended
ChatInput ==
    /\ Len(messages) + 2 <= MaxHistory
    /\ \E prompt \in Prompts, search \in SearchOutcomes, response \in ChatResponses :
          LET company_context == Get(company_data, "name", "None")
              r == process_user_query(prompt, company_context,
                                      [search |-> search, response |-> response])
          IN  /\ messages' = messages \o <<[role |-> "user", content |-> prompt],
                                            [role |-> "assistant", content |-> r.response]>>
              /\ call' = [fn |-> "process_user_query", user_query |-> prompt,
                          company_context |-> company_context, search |-> search,
                          sanitized_query |-> r.sanitized_query,
                          handler |-> r.handler, lookups |-> r.lookups,
                          response |-> r.response]
    /\ UNCHANGED <<disk, GROQ_API_KEY, reddit_rag, vector_store, boot, creates,
                   ingested, last, threads, objects, company_data>>

\* a new browser session: messages = [] and company_data = {}
NewAppSession ==
    /\ messages # <<>> \/ company_data # EmptyDict
    /\ messages' = <<>>
    /\ company_data' = EmptyDict
    /\ call' = NoAppCall
    /\ UNCHANGED <<disk, GROQ_API_KEY, reddit_rag, vector_store, boot, creates,
                   ingested, last, threads, objects>>

NextApp == AnalyzeCompany \/ ChatInput \/ NewAppSession

SpecApp == InitApp /\ [][NextApp]_vars

(***************************************************************************)
(* Properties.                                                             *)
(***************************************************************************)
\* the interaction's query returned a result to its caller
Returned == last.called /\ ~last.raised

\* the convention that answered hands back the documents it retrieved
\* (every convention but run does)
Exposed == Returned /\ last.attempts[Len(last.attempts)] # "run"

HasSource(doc) == "source" \in DOMAIN doc.metadata

IsNews(doc) == HasSource(doc) /\ doc.metadata["source"] = "yahoo_finance"

IsGenericRef(ref) == "content" \in DOMAIN ref

IsNewsRef(ref) == "url" \in DOMAIN ref

\* content truncated to 100 characters with a trailing ellipsis if truncated
TruncatedTitle(content) ==
    IF Len(content) > 100 THEN SubSeq(content, 1, 100) \o "..." ELSE content

\* the generic SourceRef the specification describes for a document
GenericRefOf(doc) ==
    [title |-> TruncatedTitle(doc.page_content), content |-> doc.page_content,
     metadata |-> doc.metadata]

MapSeq(Op(_), s) == [i \in 1..Len(s) |-> Op(s[i])]

\* C1: after every ingestion the index is saved, so the persisted snapshot is
\* the index the instance holds, and every document ever ingested is in the
\* index the running application holds, also after a restart.
C1_SavedAfterEveryIngestion ==
    reddit_rag = "instance" =>
        /\ disk = save_local(vector_store)
        /\ ingested \subseteq Range(vector_store)

\* C2 (state part): a new index is created at most once over all restarts,
\* once a construction was attempted the storage holds a loadable snapshot,
\* and with a working backend the construction succeeds whatever the storage
\* held (the load failure is not raised).
C2_State ==
    /\ creates <= 1
    /\ boot.attempted => Loadable(disk)
    /\ (boot.attempted /\ ChatGroqOk(GROQ_API_KEY)) =>
           (boot.raised = "none" /\ reddit_rag = "instance")

\* C2 (step part): a construction loads the snapshot when it is loadable,
\* leaving the storage alone, and otherwise creates an index of exactly the
\* placeholder and saves exactly that.
C2_Step ==
    (~boot.attempted /\ boot'.attempted) =>
        IF Loadable(disk)
        THEN /\ disk' = disk
             /\ creates' = creates
             /\ reddit_rag' = "instance" => vector_store' = disk.docs
        ELSE /\ disk' = [kind |-> "index", docs |-> <<InitDoc>>]
             /\ creates' = creates + 1
             /\ reddit_rag' = "instance" => vector_store' = <<InitDoc>>

C3_QueryNeverRaises ==
    last.called => (~last.raised /\ "result" \in DOMAIN last)

\* C4: without a backend credential the construction of RedditRAG still
\* completes and the index is loaded.
C4_ConstructionWithoutCredential ==
    (boot.attempted /\ GROQ_API_KEY = "None") =>
        (reddit_rag = "instance" /\ vector_store = disk.docs)

\* the answer field names of the chains' responses, in priority order
AnswerFields == <<"answer", "result", "output_text">>

FirstAnswer(response) ==
    IF \E i \in 1..Len(AnswerFields) : AnswerFields[i] \in DOMAIN response
    THEN response[AnswerFields[CHOOSE i \in 1..Len(AnswerFields) :
                      /\ AnswerFields[i] \in DOMAIN response
                      /\ \A j \in 1..(i - 1) : AnswerFields[j] \notin DOMAIN response]]
    ELSE "No answer found"

\* C5: the returned answer is the text under the first answer field that is
\* present in the response, and "No answer found" only when none is.
C5_AnswerFieldPriority ==
    Returned => last.result.answer = FirstAnswer(last.response)

\* C6: when the answering convention hands back its documents, sources holds
\* one SourceRef per retrieved document, in the order of the documents.
C6_OneSourcePerDocument ==
    Exposed =>
        /\ Len(last.result.sources) = Len(last.retrieved)
        /\ \A i \in 1..Min(Len(last.result.sources), Len(last.retrieved)) :
              IF IsNews(last.retrieved[i])
              THEN IsNewsRef(last.result.sources[i])
              ELSE /\ IsGenericRef(last.result.sources[i])
                   /\ last.result.sources[i].content = last.retrieved[i].page_content

\* C7: every retrieved document with a source tag other than the news tag
\* has its generic SourceRef among the sources.
C7_UnrecognizedTagIsGeneric ==
    Exposed =>
        \A i \in 1..Len(last.retrieved) :
            (HasSource(last.retrieved[i]) /\ ~IsNews(last.retrieved[i])) =>
                \E j \in 1..Len(last.result.sources) :
                    last.result.sources[j] = GenericRefOf(last.retrieved[i])

\* the title and url of the claim: split at the first "http", the url running
\* to the end of the content (whitespace around the parts trimmed, as in the
\* claim's example)
SplitAtFirstUrl(content) ==
    IF Contains(content, "http")
    THEN [title |-> Strip(SubSeq(content, 1, Find(content, "http") - 1)),
          url   |-> "http" \o Strip(SubSeq(content, Find(content, "http") + 4,
                                           Len(content)))]
    ELSE [title |-> content, url |-> ""]

TitleAndUrl(ref) == [title |-> ref.title, url |-> ref.url]

ClaimedNewsRef(doc) == SplitAtFirstUrl(doc.page_content)

\* C8: the SourceRefs of the retrieved news documents carry the title before
\* the first "http" and as url everything from it to the end of the content.
C8_NewsSplitAtFirstUrl ==
    Exposed =>
        MapSeq(TitleAndUrl, SelectSeq(last.result.sources, IsNewsRef))
            = MapSeq(ClaimedNewsRef, SelectSeq(last.retrieved, IsNews))

NoSource(doc) == ~HasSource(doc)

\* C9: the generic SourceRefs of a result are, in order, those of the
\* retrieved documents without a source key: title the first 100 characters
\* plus "..." when the content is longer, the content itself otherwise, with
\* the full content and the metadata.
C9_UntaggedTitleTruncated ==
    Exposed =>
        SelectSeq(last.result.sources, IsGenericRef)
            = MapSeq(GenericRefOf, SelectSeq(last.retrieved, NoSource))

\* C9 witness: a result with the SourceRef of an untagged document of more
\* than 100 characters, its title 103 characters long.
C9_Witness ==
    /\ Exposed
    /\ \E i \in 1..Len(last.retrieved) :
          /\ NoSource(last.retrieved[i])
          /\ Len(last.retrieved[i].page_content) > 100
    /\ \E j \in 1..Len(last.result.sources) :
          /\ IsGenericRef(last.result.sources[j])
          /\ Len(last.result.sources[j].title) = 103
          /\ Len(last.result.sources[j].content) > 100

\* a search for the content of entry i returns entry i
FoundByOwnContent(store, i) ==
    store[i] \in Range(Search(store, Embed(store[i].page_content), K))

\* some query vector has entry i among its k nearest
Reachable(store, i) ==
    \E qv \in 0..(2 * TITLE_MAX) : store[i] \in Range(Search(store, qv, K))

\* the k entries a search for the content of entry i returns are all at
\* distance zero
CrowdedOut(store, i) ==
    LET found == Search(store, Embed(store[i].page_content), K)
    IN  /\ Len(found) = K
        /\ \A r \in 1..K :
              Distance(Embed(found[r].page_content), Embed(store[i].page_content)) = 0

IsQueryStep ==
    /\ reddit_rag = "instance"
    /\ reddit_rag' = "instance"
    /\ messages' = messages

\* a step of the Fetch Transcript interaction
IsFetchStep == Len(messages') > Len(messages)

\* C11: a call of query, whichever convention answers and also when it
\* raises, leaves the index and the snapshot as they were and hands back
\* documents of the index unchanged; inside the Fetch Transcript interaction
\* the only change of the index is the one document added before the query.
C11_Step ==
    /\ IsQueryStep => (vector_store' = vector_store /\ disk' = disk)
    /\ IsFetchStep =>
          /\ disk' = disk
          /\ IsPrefixOf(vector_store, vector_store')
          /\ Len(vector_store') <= Len(vector_store) + 1
    /\ (last'.called /\ (IsQueryStep \/ IsFetchStep)) =>
          Range(last'.retrieved) \subseteq Range(vector_store')

C11_QueryIsPureRead == [][C11_Step]_vars

\* C11 witness: a query of the caller's own question raised after every
\* convention failed, on an index that holds an ingested document the
\* snapshot lacks.
C11_Witness ==
    /\ last.called
    /\ last.raised
    /\ last.question = "What are the risks?"
    /\ Len(vector_store) > 1
    /\ Loadable(disk)
    /\ disk # save_local(vector_store)

\* C14: one call of query invokes the chain at most twice (one retry) before
\* it reports failure.
C14_AtMostOneRetry == last.called => Len(last.attempts) <= 2

\* the text of an error record {"error": ...} as str() renders it
IsErrorRecord(text) == IsPrefixOf("{'error': ", text)

\* C15: an error record returned by the transcript fetcher in place of a
\* transcript is rejected: no document made of it is handed to the index or
\* held by it.
C15_InvalidPayloadRejected ==
    \A d \in ingested \cup Range(vector_store) : ~IsErrorRecord(d.page_content)

\* the documents the known ingestion paths produced: those the handler
\* ingested and, when this program created the index, the ones it was
\* created with
KnownPathDocs ==
    ingested \cup (IF creates > 0 /\ Loadable(disk) THEN Range(disk.docs) ELSE {})

\* C16: every document produced by a known ingestion path has a non-empty
\* content and a source tag.
C16_ContentAndSourceTag ==
    \A d \in KnownPathDocs :
        /\ d.page_content # ""
        /\ HasSource(d)
        /\ d.metadata["source"] # ""

\* C16 witness: the index was created by this program and holds a transcript
\* document and the document made of an error record.
C16_Witness ==
    /\ creates = 1
    /\ reddit_rag = "instance"
    /\ vector_store[1] = InitDoc
    /\ \E i, j \in 2..Len(vector_store) :
          /\ vector_store[i] \in ingested
          /\ vector_store[j] \in ingested
          /\ IsErrorRecord(vector_store[i].page_content)
          /\ ~IsErrorRecord(vector_store[j].page_content)

\* C17: once the constructor has returned the index holds at least one
\* entry, loaded or created, whatever ingestions and queries followed; so
\* does every snapshot the constructor leaves.
C17_IndexNeverEmpty ==
    /\ reddit_rag = "instance" => Len(vector_store) >= 1
    /\ boot.attempted => Len(load_local(disk)) >= 1

\* C17 witness: an index created on this start with the placeholder alone,
\* queried by the interaction that ingested into it.
C17_Witness ==
    /\ reddit_rag = "instance"
    /\ creates = 1
    /\ disk = save_local(CreateIndex)
    /\ last.called
    /\ Len(vector_store) = 2
    /\ vector_store[1] = InitDoc

\* the distance of a document to a query vector
DocDistance(doc, qv) == Distance(Embed(doc.page_content), qv)

\* query vectors around the entries of an index: the questions, the entries
\* themselves and the points halfway between two entries
QueryVectors(store) ==
    {Embed(q) : q \in Questions}
    \cup {Embed(store[i].page_content) : i \in 1..Len(store)}
    \cup {(Embed(store[i].page_content) + Embed(store[j].page_content)) \div 2 :
             i, j \in 1..Len(store)}

Count(seq, x) == Cardinality({i \in 1..Len(seq) : seq[i] = x})

\* C19 (step): the documents a query retrieved are min(k, size) documents of
\* the index, every document of the index when it holds fewer than k, in
\* non-decreasing distance to the question, and no document left out is
\* nearer than one returned.
C19_Step ==
    (last'.called /\ (IsQueryStep \/ IsFetchStep)) =>
        LET found == last'.retrieved
            qv    == Embed(last'.question)
            store == vector_store'
        IN  /\ Len(found) = Min(K, Len(store))
            /\ \A d \in Range(found) : Count(found, d) <= Count(store, d)
            /\ Len(store) < K =>
                   \A d \in Range(store) : Count(found, d) = Count(store, d)
            /\ \A r \in 1..(Len(found) - 1) :
                   DocDistance(found[r], qv) <= DocDistance(found[r + 1], qv)
            /\ \A d \in Range(store) :
                   Count(found, d) < Count(store, d) =>
                       DocDistance(d, qv) >= DocDistance(found[Len(found)], qv)

C19_TopKSortedByDistance == [][C19_Step]_vars

\* C19 witness: a query of an index of more than k entries returned k
\* documents, not all at one distance.
C19_Witness ==
    /\ last.called
    /\ Len(vector_store) > K
    /\ Len(last.retrieved) = K
    /\ \E r \in 1..(K - 1) :
          DocDistance(last.retrieved[r], Embed(last.question))
              < DocDistance(last.retrieved[r + 1], Embed(last.question))

\* C20 (step): a query repeated on an unmodified index retrieves the same
\* documents in the same order, and the retrieved documents at one distance
\* are the earliest inserted entries at that distance, in insertion order.
C20_Step ==
    /\ (IsQueryStep /\ last.called /\ last'.called
            /\ last'.question = last.question) =>
          last'.retrieved = last.retrieved
    /\ (last'.called /\ (IsQueryStep \/ IsFetchStep)) =>
          LET found == last'.retrieved
              qv    == Embed(last'.question)
          IN  \A r \in 1..Len(found) :
                 LET AsNear(doc) == DocDistance(doc, qv) = DocDistance(found[r], qv)
                 IN  IsPrefixOf(SelectSeq(found, AsNear),
                                SelectSeq(vector_store', AsNear))

ReturnedThreads == {t \in Threads : threads[t].pc = "returned"}

\* C12: RedditRAG is constructed at most once in the process and every call
\* of get_reddit_rag returns the same instance, also when sessions call it
\* at the same time.
C12_SingleInstance ==
    /\ objects.constructed <= 1
    /\ \A t, u \in ReturnedThreads : threads[t].rag = threads[u].rag

\* the sessions inside a call of add_documents
AddingThreads == {t \in Threads : threads[t].pc = "adding"}

\* the sessions whose call of add_documents has returned
AddedThreads == {t \in Threads : threads[t].pc \in {"added", "replied"}}

\* C13: ingestions are serialized: no two sessions are inside the mutation
\* of the index at once, the document of every finished ingestion is in the
\* index, and the snapshot is the index as it was after some number of
\* whole ingestions.
C13_IngestionSerialized ==
    /\ Cardinality(AddingThreads) <= 1
    /\ \A t \in AddedThreads : threads[t].document \in Range(vector_store)
    /\ boot.attempted =>
          \E n \in 0..Len(vector_store) :
              disk = save_local(SubSeq(vector_store, 1, n))

\* the texts the backend answers with
BackendTexts == {e.text : e \in Backends}

\* C21: on an index that holds the placeholder alone, a query whose backend
\* call succeeded returns the backend's answer: a non-empty text, not the
\* "No answer found" of an unavailable answer.
C21_AnswerOnPlaceholderOnly ==
    (reddit_rag = "instance" /\ vector_store = <<InitDoc>> /\ Returned) =>
        /\ last.result.answer # ""
        /\ last.result.answer # "No answer found"
        /\ last.result.answer \in BackendTexts

\* what a caller of query can observe of a call
Observable(q) ==
    [raised |-> q.raised,
     result |-> IF q.raised THEN [answer |-> "", sources |-> <<>>] ELSE q.result]

\* C22: whatever lookback_hours a query was called with, every other window
\* gives the same answer and the same sources (or raises alike) for the
\* same question, index and backend behaviour.
C22_LookbackHasNoEffect ==
    (reddit_rag = "instance" /\ last.called) =>
        \A e \in Backends, h \in LookbackHours :
            Observable(query(vector_store, last.question, h, e))
                = Observable(query(vector_store, last.question,
                                   last.lookback_hours, e))

\* C22 witness: a query with a window of one hour returned sources from an
\* index of several entries.
C22_Witness ==
    /\ Returned
    /\ last.lookback_hours = 1
    /\ Len(vector_store) > 1
    /\ last.result.sources # <<>>

ErrorPrefix == "An error occurred while fetching the transcript: "

\* the entry an interaction added to the index
NewestEntry(store) == store[Len(store)]

\* C23 (step): a Fetch Transcript interaction appends the user message and
\* exactly one assistant message: the error text when the fetch raised, the
\* query raised or the reply could not be formatted (the fetch returned an
\* error record), and the transcript followed by the answer otherwise.
C23_Step ==
    IsFetchStep =>
        LET failed ==
                \/ ~last'.called
                \/ last'.raised
                \/ IsErrorRecord(NewestEntry(vector_store').page_content)
            user  == messages'[Len(messages) + 1]
            reply == messages'[Len(messages) + 2]
        IN  /\ Len(messages') = Len(messages) + 2
            /\ IsPrefixOf(messages, messages')
            /\ user.role = "user"
            /\ IsPrefixOf("Show me the earnings call transcript for ", user.content)
            /\ reply.role = "assistant"
            /\ IF failed
               THEN IsPrefixOf(ErrorPrefix, reply.content)
               ELSE reply.content = NewestEntry(vector_store').page_content
                                       \o "\n" \o last'.result.answer

C23_ExceptionsBecomeOneMessage == [][C23_Step]_vars

\* C23 witness: an interaction whose query raised ended with the user
\* message and the error message.
C23_Witness ==
    /\ Len(messages) = 2
    /\ last.called
    /\ last.raised
    /\ messages[1].role = "user"
    /\ messages[2].role = "assistant"
    /\ IsPrefixOf(ErrorPrefix, messages[2].content)

\* C24 (step): when the fetch returned a value the index has exactly one
\* more entry after the interaction, the document made of that value, which
\* the query already saw; the earlier entries are untouched, and an error
\* reported to the user takes nothing back.
C24_Step ==
    IsFetchStep =>
        IF last'.called
        THEN /\ Len(vector_store') = Len(vector_store) + 1
             /\ IsPrefixOf(vector_store, vector_store')
             /\ NewestEntry(vector_store').metadata["source"] = "motley_fool"
             /\ NewestEntry(vector_store') \in ingested'
             /\ Len(last'.retrieved) = Min(K, Len(vector_store'))
             /\ Len(vector_store') <= K =>
                    NewestEntry(vector_store') \in Range(last'.retrieved)
        ELSE vector_store' = vector_store

C24_DocumentAddedBeforeQuery == [][C24_Step]_vars

\* C24 witness: the interaction reported an error to the user, for an error
\* record the fetch returned, and the document made of it is in the index.
C24_Witness ==
    /\ Len(messages) = 2
    /\ IsPrefixOf(ErrorPrefix, messages[2].content)
    /\ last.called
    /\ ~last.raised
    /\ Len(vector_store) >= 2
    /\ IsErrorRecord(NewestEntry(vector_store).page_content)

\* the conventions of query in their fixed order, the third being run or
\* the rebuilt RetrievalQA chain
InConventionOrder(attempts) ==
    /\ Len(attempts) \in 1..3
    /\ attempts[1] = "invoke_question"
    /\ Len(attempts) >= 2 => attempts[2] = "invoke_input"
    /\ Len(attempts) = 3 => attempts[3] \in {"run", "qa_chain"}

\* C25: a query tries the conventions in the fixed order; every convention
\* before the last one tried has raised, and the last one tried either
\* succeeded or is the third.
C25_ConventionOrder ==
    last.called =>
        /\ InConventionOrder(last.attempts)
        /\ Len(last.outcomes) = Len(last.attempts)
        /\ \A i \in 1..(Len(last.attempts) - 1) : last.outcomes[i] = "raise"
        /\ last.outcomes[Len(last.attempts)] = "ok" <=> ~last.raised
        /\ last.raised => Len(last.attempts) = 3

\* C25 witness: a query answered by the rebuilt RetrievalQA chain after both
\* invoke conventions raised.
C25_Witness ==
    /\ Returned
    /\ last.attempts = <<"invoke_question", "invoke_input", "qa_chain">>
    /\ last.outcomes = <<"raise", "raise", "ok">>

\* the arguments of a get_earnings_transcript call pass its three validations
ValidTranscriptCall(c) ==
    /\ validate_company_name(sanitize_input(c.company_name))
    /\ c.year >= MIN_YEAR /\ c.year <= current_year
    /\ c.quarter >= 1 /\ c.quarter <= 4

FilingsOfType(recent, filing_type) ==
    LET all == [i \in 1..Len(recent) |-> Filing(recent, i)]
        OfType(f) == filing_type = AnyForm \/ f.form = filing_type
    IN  SelectSeq(all, OfType)

\* C27: get_company_filings returns the first `limit` filings of the
\* requested form among the recent filings, in their listed order; with
\* "10-K" and limit 1 it returns the most recent 10-K whenever there is one.
C27_FirstOfType ==
    (call.fn = "get_company_filings" /\ call.response.kind = "ok")
    => call.value.filings =
           Prefix(FilingsOfType(call.response.recent, call.filing_type), call.limit)

\* no '<' of the text has a '>' behind it: it is enough to look behind the
\* first '<'
NoTag(text) ==
    LET i == Find(text, "<")
    IN  i = 0 \/ ~Contains(From(text, i + 1), ">")

\* C28: sanitize_input returns a string of at most 1000 characters in which
\* no '<' ... '>' remains, returns "" for empty or missing input, and
\* sanitizing what it returned returns it unchanged.
C28_Sanitized ==
    call.fn = "sanitize_input" =>
        /\ Len(call.value) <= SANITIZE_MAX
        /\ NoTag(call.value)
        /\ (call.arg.kind = "None" \/ call.arg.text = "") => call.value = ""
        /\ sanitize_input(call.value) = call.value
        /\ call.again => call.value = call.arg.text

\* a text longer than the limit with tags in it was sanitized to the limit,
\* and sanitized again
C28_Witness ==
    /\ call.fn = "sanitize_input"
    /\ call.again
    /\ call.first.kind = "str"
    /\ Len(call.first.text) > SANITIZE_MAX
    /\ Contains(call.first.text, "<b>")
    /\ Len(call.value) = SANITIZE_MAX
    /\ call.value = call.arg.text

\* the keyword groups in their fixed order
GroupOrder == <<"financial", "filings", "risk", "business">>

GroupTerms(group) ==
    IF group = "financial" THEN FinancialTerms
    ELSE IF group = "filings" THEN FilingsTerms
    ELSE IF group = "risk" THEN RiskTerms
    ELSE BusinessTerms

\* the groups a keyword of which occurs in the text, by their positions
MatchingGroups(text) ==
    {i \in 1..Len(GroupOrder) : \E term \in GroupTerms(GroupOrder[i]) : Contains(text, term)}

\* the earliest group a keyword of which occurs in the text, "default" when
\* there is none
FirstGroup(text) ==
    IF MatchingGroups(text) = {} THEN "default"
    ELSE GroupOrder[CHOOSE i \in MatchingGroups(text) :
                        \A j \in MatchingGroups(text) : i <= j]

\* C29: process_user_query handles a question by the one handler of the
\* first keyword group, in the order financial, filings, risk, business,
\* default, a keyword of which occurs in the sanitized, lower-cased query:
\* a question with "risk" and "report" is answered as a filings question.
\* With no company context it returns the select-a-company message and
\* makes no lookup.
C29_FirstMatchingGroup ==
    call.fn = "process_user_query" =>
        LET query_lower == Lower(call.sanitized_query)
        IN  /\ call.company_context \in {"None", ""} =>
                   /\ call.response = SelectCompanyMessage
                   /\ call.lookups = <<>>
                   /\ call.handler = "none"
            /\ (call.company_context \notin {"None", ""} /\ call.search = "cik") =>
                   /\ call.handler = FirstGroup(query_lower)
                   /\ call.lookups = <<"search_company">> \o HandlerLookups(call.handler)
            /\ call.handler # "none" => call.handler = FirstGroup(query_lower)
            /\ (/\ call.handler # "none"
                /\ Contains(query_lower, "risk")
                /\ Contains(query_lower, "report")) =>
                   /\ call.handler = "filings"
                   /\ \/ IsPrefixOf("Recent SEC filings for ", call.response)
                      \/ IsPrefixOf("Error retrieving filings: ", call.response)
            /\ messages # <<>> /\ messages[Len(messages)].content = call.response

\* a company is selected and the question holds keywords of the filings
\* group and of the risk group: the filings handler answered
C29_Witness ==
    /\ call.fn = "process_user_query"
    /\ call.company_context = "Apple Inc."
    /\ call.search = "cik"
    /\ MatchingGroups(Lower(call.sanitized_query)) = {2, 3}
    /\ call.handler = "filings"
    /\ IsPrefixOf("Recent SEC filings for Apple Inc.", messages[Len(messages)].content)

\* a step of the Analyze Company handler: it is the call the step records,
\* and the step is not one that leaves a recorded call as it is
IsAnalyzeStep ==
    /\ call'.fn = "analyze_company"
    /\ call' # call \/ messages' # messages

\* the name in the text input passes the validation and the search
\* answered a CIK
Accepted(c) ==
    /\ c.company_name # ""
    /\ validate_company_name(sanitize_input(c.company_name))
    /\ c.outcome = "cik"

C30_Step ==
    IsAnalyzeStep =>
        IF Accepted(call')
        THEN /\ "name" \in DOMAIN company_data'
             /\ company_data'.name = sanitize_input(call'.company_name)
             /\ company_data'.cik = FoundCik
             /\ Len(messages') = Len(messages) + 1
             /\ SubSeq(messages', 1, Len(messages)) = messages
             /\ messages'[Len(messages')].role = "assistant"
             /\ IsPrefixOf("I've analyzed " \o sanitize_input(call'.company_name),
                           messages'[Len(messages')].content)
        ELSE /\ company_data' = company_data
             /\ messages' = messages

\* C30: the Analyze Company action replaces company_data and appends the
\* "I've analyzed" assistant message only when the name is valid and the
\* search returns a CIK; when the name is invalid, the search returns an
\* error or no CIK is found, company_data and the chat history are left
\* unchanged, so a selected company stays selected.
C30_AnalyzeOnlyOnCik == [][C30_Step]_vars

\* a company was selected, and an analysis of another name whose search
\* failed has left the selection and the history as they were
C30_Witness ==
    /\ call.fn = "analyze_company"
    /\ call.company_name = "<b>Tesla</b>"
    /\ call.outcome \in {"error", "no_cik"}
    /\ call.error # "None"
    /\ "name" \in DOMAIN company_data
    /\ company_data.name = "Apple Inc."
    /\ messages = <<AnalyzedMessage("Apple Inc.")>>

============================================================================
